---- MODULE Spec2Model ----
(***************************************************************************)
(* Model of the record filter (data_filter.py) and of the usage ledger     *)
(* (usage_tracker.py) of AnalyticsPOC_V2.                                  *)
(*                                                                         *)
(* Python strings that are lower-cased or searched for substrings are      *)
(* sequences of one-character strings; strings that are only compared for  *)
(* equality (status values, beneficiary labels, model names, providers)    *)
(* are TLA+ strings.  A dict is a function whose DOMAIN is its key set, so *)
(* a missing key is a missing element of the DOMAIN.                       *)
(***************************************************************************)
EXTENDS Integers, Sequences, FiniteSets, TLC

VARIABLES question, db, result, calls, started_at, op, args, ret, exc, stdout,
          n_usage, n_known, history_file, pc, req

\* the state of the web app (app_deploy.py): the question history file, and per request
\* its position in home / ask_question and its local variables
appVars == <<history_file, pc, req>>

vars == <<question, db, result, calls, started_at, op, args, ret, exc, stdout, n_usage, n_known,
          history_file, pc, req>>

(* ---------------------------- bounds ----------------------------------- *)

\* a question is the concatenation of at most MaxFrags fragments
MaxFrags == 2

\* the short record collections have at most MaxDbLen records
MaxDbLen == 2

\* the long record collections have FallbackCap - LongSlack .. FallbackCap + LongSlack records
LongSlack == 1

\* the ledger is explored up to MaxCalls recorded calls, and up to MaxCalls + 1
\* record invocations that carry a usage payload
MaxCalls == 2

(* ------------------------- Python values -------------------------------- *)

\* Python's None
NoneVal == [pytype |-> "NoneType"]

\* the requests the web app can have in flight
Reqs == {"A", "B"}

\* no question history file, no request
AppIdle ==
  /\ history_file = [exists |-> FALSE]
  /\ pc = [r \in Reqs |-> "idle"]
  /\ req = [r \in Reqs |-> NoneVal]

\* dict.get(key, default) / getattr(obj, name, default)
dict_get(d, k, default) == IF k \in DOMAIN d THEN d[k] ELSE default

\* "if not usage" is false: the response has a usage attribute that is not None
UsagePresentIn(response) == dict_get(response, "usage", NoneVal) # NoneVal

Min(a, b) == IF a < b THEN a ELSE b

(* ---------------------------- str ops ----------------------------------- *)

UpperToLower ==
  [c \in {"A","B","C","D","E","F","G","H","I","J","K","L","M","N","O","P","Q","R","S","T","U","V","W","X","Y","Z"} |->
     CASE c = "A" -> "a" [] c = "B" -> "b" [] c = "C" -> "c" [] c = "D" -> "d"
       [] c = "E" -> "e" [] c = "F" -> "f" [] c = "G" -> "g" [] c = "H" -> "h"
       [] c = "I" -> "i" [] c = "J" -> "j" [] c = "K" -> "k" [] c = "L" -> "l"
       [] c = "M" -> "m" [] c = "N" -> "n" [] c = "O" -> "o" [] c = "P" -> "p"
       [] c = "Q" -> "q" [] c = "R" -> "r" [] c = "S" -> "s" [] c = "T" -> "t"
       [] c = "U" -> "u" [] c = "V" -> "v" [] c = "W" -> "w" [] c = "X" -> "x"
       [] c = "Y" -> "y" [] c = "Z" -> "z"]

\* str.lower(): maps every upper-case letter to its lower-case letter
lower(s) == [i \in 1..Len(s) |-> IF s[i] \in DOMAIN UpperToLower THEN UpperToLower[s[i]] ELSE s[i]]

\* Python's "sub in s" on strings: sub occurs in s as a contiguous substring
Contains(sub, s) ==
  \E i \in 0..(Len(s) - Len(sub)) : SubSeq(s, i + 1, i + Len(sub)) = sub

(* the keyword literals of filter_activities *)
KwExecuted == <<"e","x","e","c","u","t","e","d">>
KwPlanned == <<"p","l","a","n","n","e","d">>
KwInProgress == <<"i","n"," ","p","r","o","g","r","e","s","s">>
KwGhana == <<"g","h","a","n","a">>
KwNigeria == <<"n","i","g","e","r","i","a">>
KwKenya == <<"k","e","n","y","a">>
KwSouthAfrica == <<"s","o","u","t","h"," ","a","f","r","i","c","a">>
KwWomen == <<"w","o","m","e","n">>

\* the list the country loop iterates over, in its order
CountryList == <<KwGhana, KwNigeria, KwKenya, KwSouthAfrica>>

\* db[:50]
FallbackCap == 50

(* ------------------------- filter_activities ---------------------------- *)

\* a.get("ActivityStatus") == s   (a missing key gives None, which equals no status string)
StatusIs_default_matches(a, s) == dict_get(a, "ActivityStatus", s) = s

StatusIs(a, s) == "ActivityStatus" \in DOMAIN a /\ a["ActivityStatus"] = s

\* any(c.get("value", "").lower() == country for c in a.get("CountriesSplitted", []))
HasCountry_substring(a, country) ==
  LET cs == dict_get(a, "CountriesSplitted", <<>>)
  IN  \E j \in 1..Len(cs) : Contains(country, lower(dict_get(cs[j], "value", <<>>)))

HasCountry(a, country) ==
  LET cs == dict_get(a, "CountriesSplitted", <<>>)
  IN  \E j \in 1..Len(cs) : lower(dict_get(cs[j], "value", <<>>)) = country

\* "Women and Girls" in a.get("BeneficiariesExtracted", [])
HasWomenAndGirls(a) ==
  LET bs == dict_get(a, "BeneficiariesExtracted", <<>>)
  IN  \E j \in 1..Len(bs) : bs[j] = "Women and Girls"

\* [a for a in db if a.get("ActivityStatus") == s]
SelectStatus(d, s) == SelectSeq(d, LAMBDA a : StatusIs(a, s))

\* [a for a in db if any(... == country ...)]
RECURSIVE SelectCountry_per_entry(_, _)
SelectCountry_per_entry(d, country) ==
  IF d = <<>> THEN <<>>
  ELSE LET cs == dict_get(Head(d), "CountriesSplitted", <<>>)
           hits == SelectSeq(cs, LAMBDA c : lower(dict_get(c, "value", <<>>)) = country)
       IN  [j \in 1..Len(hits) |-> Head(d)] \o SelectCountry_per_entry(Tail(d), country)

SelectCountry(d, country) == SelectSeq(d, LAMBDA a : HasCountry(a, country))

\* return db[:50]
Fallback_uncapped(d) == d

Fallback_one_more(d) == SubSeq(d, 1, Min(FallbackCap + 1, Len(d)))

Fallback(d) == SubSeq(d, 1, Min(FallbackCap, Len(d)))

\* the country loop from position k on: returns at the first country found in q,
\* falls through to the beneficiary rule and the fallback when the list is exhausted
RECURSIVE CountryLoop(_, _, _)
CountryLoop(q, d, k) ==
  IF k > Len(CountryList)
    THEN IF Contains(KwWomen, q)
           THEN SelectSeq(d, HasWomenAndGirls)
           ELSE Fallback(d)
    ELSE IF Contains(CountryList[k], q)
           THEN SelectCountry(d, CountryList[k])
           ELSE CountryLoop(q, d, k + 1)

filter_activities_country_first(qn, d) ==
  LET q == lower(qn)
  IN  IF \E k \in 1..Len(CountryList) : Contains(CountryList[k], q) THEN CountryLoop(q, d, 1)
      ELSE IF Contains(KwExecuted, q) THEN SelectStatus(d, "Executed")
      ELSE IF Contains(KwPlanned, q) THEN SelectStatus(d, "Planned")
      ELSE IF Contains(KwInProgress, q) THEN SelectStatus(d, "In progress")
      ELSE CountryLoop(q, d, 1)

filter_activities(qn, d) ==
  LET q == lower(qn)
  IN  IF Contains(KwExecuted, q) THEN SelectStatus(d, "Executed")
      ELSE IF Contains(KwPlanned, q) THEN SelectStatus(d, "Planned")
      ELSE IF Contains(KwInProgress, q) THEN SelectStatus(d, "In progress")
      ELSE CountryLoop(q, d, 1)

(* --------------------- inputs of the filter ----------------------------- *)

Fragments ==
  { <<"E","x","e","c","u","t","e","d">>,
    <<"P","L","A","N","N","E","D">>,
    <<"I","n"," ","P","r","o","g","r","e","s","s">>,
    <<"g","h","a","n","a","i","a","n">>,
    <<"N","i","g","e","r","i","a">>,
    <<"k","e","n","y","a">>,
    <<"S","o","u","t","h"," ","A","f","r","i","c","a">>,
    <<"W","o","m","e","n">>,
    <<"w","h","a","t"," ">> }

RECURSIVE Concat(_)
Concat(fs) == IF fs = <<>> THEN <<>> ELSE Head(fs) \o Concat(Tail(fs))

Questions == { Concat(fs) : fs \in UNION { [1..n -> Fragments] : n \in 0..MaxFrags } }

\* stored country values
ValGhana == <<"G","h","a","n","a">>
ValGHANA == <<"G","H","A","N","A">>
ValGhanaTogo == <<"G","h","a","n","a",",","T","o","g","o">>
ValNIGERIA == <<"N","I","G","E","R","I","A">>
ValKenya == <<"k","e","n","y","a">>
ValSouthAfrica == <<"S","o","u","t","h"," ","A","f","r","i","c","a">>

\* the shapes of activity record the collections are built from; the third has a
\* geography entry without value key, the last one lacks every key the filter reads
RecordKinds ==
  << [ActivityStatus |-> "Executed",
      CountriesSplitted |-> << [value |-> ValGhana], [value |-> ValGHANA] >>,
      BeneficiariesExtracted |-> << "Women and Girls" >>],
     [ActivityStatus |-> "Planned",
      CountriesSplitted |-> << [value |-> ValNIGERIA], [value |-> ValKenya] >>,
      BeneficiariesExtracted |-> << "Youth", "Women and Girls" >>],
     [ActivityStatus |-> "In progress",
      CountriesSplitted |-> << [cleaned |-> ValGhana], [value |-> ValGhanaTogo] >>,
      BeneficiariesExtracted |-> << "Women" >>],
     [ActivityStatus |-> "executed",
      CountriesSplitted |-> << [value |-> ValSouthAfrica], [value |-> ValGhana] >>,
      BeneficiariesExtracted |-> << >>],
     [ActivityTitle |-> "untitled"] >>

NumKinds == Len(RecordKinds)

\* record of kind k carrying the unique key i
Rec(i, k) == [key |-> i] @@ RecordKinds[k]

\* the collections of n records, every combination of kinds
DbsOfLen(n) == { [i \in 1..n |-> Rec(i, ks[i])] : ks \in [1..n -> 1..NumKinds] }

ShortDbs == UNION { DbsOfLen(n) : n \in 0..MaxDbLen }

\* n records whose kinds cycle with period p
CyclicDb(n, p) == [i \in 1..n |-> Rec(i, (i % p) + 1)]

LongDbs ==
  { CyclicDb(n, p) : n \in (FallbackCap - LongSlack)..(FallbackCap + LongSlack), p \in {1, NumKinds} }

Databases == ShortDbs \cup LongDbs

(* ------------------------- filter specification ------------------------- *)

FilterInit ==
  /\ question \in Questions
  /\ db \in Databases
  /\ result = <<>>
  /\ calls = <<>>
  /\ started_at = 0
  /\ op = "init"
  /\ args = NoneVal
  /\ ret = NoneVal
  /\ exc = "none"
  /\ stdout = NoneVal
  /\ n_usage = 0
  /\ n_known = 0
  /\ AppIdle

\* filtered = filter_activities(question, db)
FilterActivities ==
  /\ op = "init"
  /\ result' = filter_activities(question, db)
  /\ op' = "filter_activities"
  /\ UNCHANGED <<question, db, calls, started_at, args, ret, exc, stdout, n_usage, n_known>>
  /\ UNCHANGED appVars

FilterNext == FilterActivities

FilterSpec == FilterInit /\ [][FilterNext]_vars

(* ----------------------- properties of the filter ----------------------- *)

\* the rule keywords in the order of precedence
RuleKeywords ==
  <<KwExecuted, KwPlanned, KwInProgress, KwGhana, KwNigeria, KwKenya, KwSouthAfrica, KwWomen>>

NumRules == Len(RuleKeywords)

\* the rules whose keyword occurs in the lower-cased question
MatchingRules(qn) ==
  LET q == lower(qn)
  IN  { i \in 1..NumRules : Contains(RuleKeywords[i], q) }

\* the first matching rule, NumRules + 1 standing for the fallback
FirstRule(qn) ==
  LET M == MatchingRules(qn)
  IN  IF M = {} THEN NumRules + 1 ELSE CHOOSE i \in M : \A j \in M : i <= j

\* record a has a geography entry with a stored value that, lower-cased, equals c
StoredCountryEquals(a, c) ==
  /\ "CountriesSplitted" \in DOMAIN a
  /\ \E j \in DOMAIN a["CountriesSplitted"] :
        /\ "value" \in DOMAIN a["CountriesSplitted"][j]
        /\ lower(a["CountriesSplitted"][j]["value"]) = c

\* record a is one rule i selects
RuleSelects(i, a) ==
  CASE i = 1 -> "ActivityStatus" \in DOMAIN a /\ a["ActivityStatus"] = "Executed"
    [] i = 2 -> "ActivityStatus" \in DOMAIN a /\ a["ActivityStatus"] = "Planned"
    [] i = 3 -> "ActivityStatus" \in DOMAIN a /\ a["ActivityStatus"] = "In progress"
    [] i \in 4..7 -> StoredCountryEquals(a, RuleKeywords[i])
    [] i = 8 -> /\ "BeneficiariesExtracted" \in DOMAIN a
                /\ \E j \in DOMAIN a["BeneficiariesExtracted"] :
                      a["BeneficiariesExtracted"][j] = "Women and Girls"

\* the records of d at the positions in S, in the order of d
RECURSIVE PickFrom(_, _, _)
PickFrom(d, S, k) ==
  IF k > Len(d) THEN <<>>
  ELSE (IF k \in S THEN <<d[k]>> ELSE <<>>) \o PickFrom(d, S, k + 1)

Picked(d, S) == PickFrom(d, S, 1)

\* what rule i selects from d
RuleSelection(i, d) ==
  IF i = NumRules + 1 THEN Picked(d, 1..Min(50, Len(d)))
  ELSE Picked(d, { k \in 1..Len(d) : RuleSelects(i, d[k]) })

Filtered == op = "filter_activities"

\* C1: the result of filter_activities is exactly the selection of the first rule, in
\* the order executed, planned, in progress, ghana, nigeria, kenya, south africa, women,
\* fallback, whose keyword occurs in the lower-cased question; in particular a question
\* containing "executed" in any letter case yields exactly the records whose status is
\* "Executed", in original order, whatever other keywords it contains.
C1_FirstMatchWins ==
  Filtered =>
    /\ result = RuleSelection(FirstRule(question), db)
    /\ Contains(KwExecuted, lower(question)) =>
          result = Picked(db, { k \in 1..Len(db) : RuleSelects(1, db[k]) })

\* a question with "executed" in mixed case and a country keyword, over a collection
\* where a record of that country is not executed and so is left out
C1_Witness ==
  /\ Filtered
  /\ Contains(KwExecuted, lower(question))
  /\ ~ Contains(KwExecuted, question)
  /\ Contains(KwGhana, lower(question))
  /\ result # <<>>
  /\ \E k \in 1..Len(db) : RuleSelects(4, db[k]) /\ ~ RuleSelects(1, db[k])

NoStatusKeyword(qn) == MatchingRules(qn) \cap {1, 2, 3} = {}

\* C2: when the country rule fires for country c, the result is exactly the records with
\* a geography entry whose stored value, lower-cased, equals c: a substring test on the
\* question, an exact case-insensitive equality on the stored value.
C2_CountryRule ==
  Filtered =>
    LET i == FirstRule(question)
    IN  i \in 4..7 =>
          result = Picked(db, { k \in 1..Len(db) : StoredCountryEquals(db[k], RuleKeywords[i]) })

\* the question says "ghanaian"; a record storing "Ghana" or "GHANA" is selected and a
\* record storing "Ghana,Togo" is not
C2_Witness ==
  /\ Filtered
  /\ FirstRule(question) = 4
  /\ Contains(<<"g","h","a","n","a","i","a","n">>, lower(question))
  /\ \E k \in 1..Len(db) :
        /\ "CountriesSplitted" \in DOMAIN db[k]
        /\ \E j \in DOMAIN db[k]["CountriesSplitted"] :
              db[k]["CountriesSplitted"][j] = [value |-> ValGhanaTogo]
        /\ \A j \in 1..Len(result) : result[j] # db[k]
  /\ \E j \in 1..Len(result) :
        [value |-> ValGHANA] \in { result[j]["CountriesSplitted"][e] : e \in DOMAIN result[j]["CountriesSplitted"] }

\* C3: a question containing none of the rule keywords, the empty question included,
\* yields the first min(50, len(records)) records in original order, and does not raise.
C3_Fallback ==
  (Filtered /\ MatchingRules(question) = {}) =>
     /\ result = SubSeq(db, 1, Min(50, Len(db)))
     /\ exc = "none"

\* a question without keyword over a collection of more than 50 records
C3_Witness ==
  /\ Filtered
  /\ MatchingRules(question) = {}
  /\ question # <<>>
  /\ Len(db) > 50
  /\ Len(result) = 50

\* r is a sub-sequence of d: r[i..] can be matched, in order, inside d[j..]
RECURSIVE SubSeqFrom(_, _, _, _)
SubSeqFrom(r, d, i, j) ==
  IF i > Len(r) THEN TRUE
  ELSE IF j > Len(d) THEN FALSE
  ELSE IF r[i] = d[j] THEN SubSeqFrom(r, d, i + 1, j + 1)
  ELSE SubSeqFrom(r, d, i, j + 1)

IsSubsequence(r, d) == SubSeqFrom(r, d, 1, 1)

\* C4: the result is a sub-sequence of the collection in original relative order, the
\* collection is left unmodified, and filtering the empty collection gives the empty result.
C4_SubsequenceFrame ==
  /\ [](Filtered => IsSubsequence(result, db) /\ (db = <<>> => result = <<>>))
  /\ [][db' = db]_vars

\* a rule selected some but not all of the records, and skipped one between two it kept
C4_Witness ==
  /\ Filtered
  /\ Len(result) >= 2
  /\ Len(result) < Len(db)
  /\ \E k \in 1..Len(db) :
        /\ \A j \in 1..Len(result) : result[j] # db[k]
        /\ \E j \in 1..(Len(result) - 1) : result[j]["key"] < k /\ k < result[j + 1]["key"]

\* the records of d that are in the sequence r
Kept(r, d) == { k \in 1..Len(d) : \E j \in 1..Len(r) : r[j] = d[k] }

\* record a lacks the field rule i inspects: no status key, no geography list or a
\* geography list with an entry without value key, no beneficiaries list
LacksField(i, a) ==
  CASE i \in 1..3 -> "ActivityStatus" \notin DOMAIN a
    [] i \in 4..7 -> \/ "CountriesSplitted" \notin DOMAIN a
                     \/ \E j \in DOMAIN a["CountriesSplitted"] :
                          "value" \notin DOMAIN a["CountriesSplitted"][j]
    [] i = 8 -> "BeneficiariesExtracted" \notin DOMAIN a
    [] OTHER -> FALSE

\* record a has a geography entry with a value key whose value, lower-cased, is c
ValuedEntryEquals(a, c) ==
  \E j \in DOMAIN a["CountriesSplitted"] :
     LET e == a["CountriesSplitted"][j]
     IN  "value" \in DOMAIN e /\ lower(e["value"]) = c

\* C11: a record lacking the field the fired rule inspects never makes filter_activities
\* raise and is treated as non-matching on that field: without status key, geography list
\* or beneficiaries list it is left out of the status, country or beneficiary result, an
\* entry without value key never matches a country, and the records that have the field
\* are selected as usual.
C11_MissingFieldNoMatch ==
  Filtered =>
    LET i == FirstRule(question)
        kept == Kept(result, db)
    IN  /\ exc = "none"
        /\ \A k \in 1..Len(db) :
              /\ (i \in 1..3 \cup {8} /\ LacksField(i, db[k])) => k \notin kept
              /\ (i \in 4..7 /\ "CountriesSplitted" \notin DOMAIN db[k]) => k \notin kept
              /\ (i \in 4..7 /\ "CountriesSplitted" \in DOMAIN db[k]) =>
                    (k \in kept <=> ValuedEntryEquals(db[k], RuleKeywords[i]))
              /\ (i \in 1..3 \cup {8} /\ ~ LacksField(i, db[k])) =>
                    (k \in kept <=> RuleSelects(i, db[k]))

\* the status rule fired on a collection with a record without status key, which is left
\* out while a record with the status is kept
C11_Witness ==
  /\ Filtered
  /\ FirstRule(question) \in 1..3
  /\ \E k \in 1..Len(db) : "ActivityStatus" \notin DOMAIN db[k] /\ k \notin Kept(result, db)
  /\ result # <<>>
  /\ exc = "none"

\* C12 as stated: whatever rule fires, the result has at most 50 records.
C12_AsStated == Filtered => Len(result) <= 50

\* C12 (amended): the result never has more records than the collection, and it has at
\* most 50 records when no rule keyword occurs in the question (the fallback); the
\* status, country and beneficiary rules return every matching record, uncapped.
C12_BoundedResult ==
  Filtered =>
    /\ Len(result) <= Len(db)
    /\ MatchingRules(question) = {} => Len(result) <= 50

\* the empty question over a collection of more than 50 records, cut to 50
C12_Witness ==
  /\ Filtered
  /\ question = <<>>
  /\ Len(db) > 50
  /\ Len(result) = 50
  /\ result[50] = db[50]

(* ============================ usage ledger ============================== *)

\* MODEL_PRICING: USD per 1M tokens, here in cents per 1M tokens (3.50 is 350)
MODEL_PRICING ==
     "gpt-5.2" :> [input |-> 350, output |-> 2800]
  @@ "gpt-5.2-pro" :> [input |-> 2100, output |-> 16800]
  @@ "gpt-5.1" :> [input |-> 125, output |-> 1000]
  @@ "gpt-5-mini" :> [input |-> 25, output |-> 200]
  @@ "gpt-5-nano" :> [input |-> 5, output |-> 40]
  @@ "gpt-4.1" :> [input |-> 300, output |-> 1200]
  @@ "gpt-4.1-mini" :> [input |-> 80, output |-> 320]
  @@ "gpt-4.1-nano" :> [input |-> 20, output |-> 80]
  @@ "gpt-4o" :> [input |-> 375, output |-> 1500]
  @@ "gpt-4o-mini" :> [input |-> 30, output |-> 120]
  @@ "gpt-realtime" :> [input |-> 3200, output |-> 6400]
  @@ "gpt-realtime-mini" :> [input |-> 1000, output |-> 2000]
  @@ "gpt-4o-realtime-preview" :> [input |-> 4000, output |-> 8000]
  @@ "gpt-3.5-turbo" :> [input |-> 300, output |-> 600]
  @@ "davinci-002" :> [input |-> 1200, output |-> 1200]
  @@ "babbage-002" :> [input |-> 160, output |-> 160]
  @@ "claude-sonnet-4-5" :> [input |-> 300, output |-> 1500]
  @@ "claude-sonnet-4-5-20250929" :> [input |-> 300, output |-> 1500]
  @@ "claude-haiku-4-5" :> [input |-> 100, output |-> 500]
  @@ "claude-haiku-4-5-20251001" :> [input |-> 100, output |-> 500]
  @@ "claude-opus-4-5" :> [input |-> 500, output |-> 2500]
  @@ "claude-opus-4-5-20251101" :> [input |-> 500, output |-> 2500]
  @@ "claude-sonnet-4" :> [input |-> 300, output |-> 1500]
  @@ "claude-opus-4" :> [input |-> 1500, output |-> 7500]
  @@ "claude-opus-4.1" :> [input |-> 1500, output |-> 7500]
  @@ "claude-3-5-sonnet-20241022" :> [input |-> 300, output |-> 1500]
  @@ "claude-3-5-sonnet-20240620" :> [input |-> 300, output |-> 1500]
  @@ "claude-3-5-haiku-20241022" :> [input |-> 80, output |-> 400]
  @@ "claude-3-opus-20240229" :> [input |-> 1500, output |-> 7500]
  @@ "claude-3-sonnet-20240229" :> [input |-> 300, output |-> 1500]
  @@ "claude-3-haiku-20240307" :> [input |-> 25, output |-> 125]
  @@ "claude-2.1" :> [input |-> 1102, output |-> 3268]
  @@ "claude-instant-1.2" :> [input |-> 163, output |-> 551]

\* the provider branches of record
KnownProviders == {"openai", "claude"}

(* ------------------------ inputs of the ledger -------------------------- *)

\* usage of a chat.completions response (app_deploy.py, provider "openai")
OpenAIUsages ==
  { [prompt_tokens |-> 1000, completion_tokens |-> 500, total_tokens |-> 1500],
    [prompt_tokens |-> 2, completion_tokens |-> 0, total_tokens |-> 9] }

\* usage of a messages response (app_deploy.py, provider "claude")
ClaudeUsages == { [input_tokens |-> 1000, output_tokens |-> 500] }

\* usage of a responses.create response (main.py)
ResponsesUsages == { [input_tokens |-> 2, output_tokens |-> 0, total_tokens |-> 2] }

Usages == OpenAIUsages \cup ClaudeUsages \cup ResponsesUsages

\* a response without usage attribute, one whose usage is None, and one per usage payload
Responses ==
  { [id |-> "resp"], [id |-> "resp", usage |-> NoneVal] }
  \cup { [id |-> "resp", usage |-> u] : u \in Usages }

\* the model and stage arguments of the two call sites of record
CallSites ==
  { [model |-> "gpt-4.1-mini", stage |-> "answer_generation"],
    [model |-> "claude-3-haiku-20240307", stage |-> "query"] }

Providers == {"openai", "claude", "gemini"}

\* the calls calculate_cost is applied to on its own
ProbeModels ==
  {"gpt-4.1-mini", "GPT-4.1-MINI", "gpt-5-mini", "claude-2.1", "gpt-5.2-pro", "gpt-4", "text-embedding-3"}

ProbeCalls ==
  { [model |-> m, input_tokens |-> i, output_tokens |-> o] :
      m \in ProbeModels, i \in {0, 1, 2, 1000}, o \in {0, 1, 500} }

(* ----------------------------- UsageTracker ----------------------------- *)

\* the outcome of record on the call list cs: the call list afterwards and the exception
\* raised ("none" when it returns); reading an attribute the usage object does not have
\* raises AttributeError before anything is appended
record_front(cs, response, model, stage, provider) ==
  LET usage == dict_get(response, "usage", NoneVal)
      entry(i, o, t) == [stage |-> stage, model |-> model, provider |-> provider,
                         input_tokens |-> i, output_tokens |-> o, total_tokens |-> t]
  IN  IF usage = NoneVal THEN [calls |-> cs, exc |-> "none"]
      ELSE IF provider = "openai"
        THEN IF {"prompt_tokens", "completion_tokens", "total_tokens"} \subseteq DOMAIN usage
               THEN [calls |-> <<entry(usage["prompt_tokens"], usage["completion_tokens"],
                                       usage["total_tokens"])>> \o cs,
                     exc |-> "none"]
               ELSE [calls |-> cs, exc |-> "AttributeError"]
      ELSE IF provider = "claude"
        THEN IF {"input_tokens", "output_tokens"} \subseteq DOMAIN usage
               THEN [calls |-> <<entry(usage["input_tokens"], usage["output_tokens"],
                                       usage["input_tokens"] + usage["output_tokens"])>> \o cs,
                     exc |-> "none"]
               ELSE [calls |-> cs, exc |-> "AttributeError"]
      ELSE [calls |-> cs, exc |-> "none"]

record_else_openai(cs, response, model, stage, provider) ==
  LET usage == dict_get(response, "usage", NoneVal)
      entry(i, o, t) == [stage |-> stage, model |-> model, provider |-> provider,
                         input_tokens |-> i, output_tokens |-> o, total_tokens |-> t]
  IN  IF usage = NoneVal THEN [calls |-> cs, exc |-> "none"]
      ELSE IF provider = "claude"
        THEN IF {"input_tokens", "output_tokens"} \subseteq DOMAIN usage
               THEN [calls |-> Append(cs, entry(usage["input_tokens"], usage["output_tokens"],
                                       usage["input_tokens"] + usage["output_tokens"])),
                     exc |-> "none"]
               ELSE [calls |-> cs, exc |-> "AttributeError"]
      ELSE IF {"prompt_tokens", "completion_tokens", "total_tokens"} \subseteq DOMAIN usage
               THEN [calls |-> Append(cs, entry(usage["prompt_tokens"], usage["completion_tokens"],
                                       usage["total_tokens"])),
                     exc |-> "none"]
               ELSE [calls |-> cs, exc |-> "AttributeError"]

record_total_computed(cs, response, model, stage, provider) ==
  LET usage == dict_get(response, "usage", NoneVal)
      entry(i, o, t) == [stage |-> stage, model |-> model, provider |-> provider,
                         input_tokens |-> i, output_tokens |-> o, total_tokens |-> t]
  IN  IF usage = NoneVal THEN [calls |-> cs, exc |-> "none"]
      ELSE IF provider = "openai"
        THEN IF {"prompt_tokens", "completion_tokens", "total_tokens"} \subseteq DOMAIN usage
               THEN [calls |-> Append(cs, entry(usage["prompt_tokens"], usage["completion_tokens"],
                                       usage["prompt_tokens"] + usage["completion_tokens"])),
                     exc |-> "none"]
               ELSE [calls |-> cs, exc |-> "AttributeError"]
      ELSE IF provider = "claude"
        THEN IF {"input_tokens", "output_tokens"} \subseteq DOMAIN usage
               THEN [calls |-> Append(cs, entry(usage["input_tokens"], usage["output_tokens"],
                                       usage["input_tokens"] + usage["output_tokens"])),
                     exc |-> "none"]
               ELSE [calls |-> cs, exc |-> "AttributeError"]
      ELSE [calls |-> cs, exc |-> "none"]

record(cs, response, model, stage, provider) ==
  LET usage == dict_get(response, "usage", NoneVal)
      entry(i, o, t) == [stage |-> stage, model |-> model, provider |-> provider,
                         input_tokens |-> i, output_tokens |-> o, total_tokens |-> t]
  IN  IF usage = NoneVal THEN [calls |-> cs, exc |-> "none"]
      ELSE IF provider = "openai"
        THEN IF {"prompt_tokens", "completion_tokens", "total_tokens"} \subseteq DOMAIN usage
               THEN [calls |-> Append(cs, entry(usage["prompt_tokens"], usage["completion_tokens"],
                                       usage["total_tokens"])),
                     exc |-> "none"]
               ELSE [calls |-> cs, exc |-> "AttributeError"]
      ELSE IF provider = "claude"
        THEN IF {"input_tokens", "output_tokens"} \subseteq DOMAIN usage
               THEN [calls |-> Append(cs, entry(usage["input_tokens"], usage["output_tokens"],
                                       usage["input_tokens"] + usage["output_tokens"])),
                     exc |-> "none"]
               ELSE [calls |-> cs, exc |-> "AttributeError"]
      ELSE [calls |-> cs, exc |-> "none"]

\* round(x, 6) of an amount of n hundredths of a micro-dollar, in micro-dollars (1e-6 USD).
\* The float x is the nearest double to the exact amount, so away from a tie the result
\* is the nearest micro-dollar; at an exact tie (n ends in 50) the rounding error of the
\* double decides, and either neighbour is a possible result.
round6(n) ==
  IF n % 100 = 50 THEN {n \div 100, n \div 100 + 1}
  ELSE IF n % 100 < 50 THEN {n \div 100}
  ELSE {n \div 100 + 1}

\* the possible results of calculate_cost(call), in micro-dollars
calculate_cost_per_thousand(call) ==
  IF call["model"] \notin DOMAIN MODEL_PRICING THEN {0}
  ELSE LET pricing == MODEL_PRICING[call["model"]]
       IN  round6(1000 * (call["input_tokens"] * pricing["input"]
                          + call["output_tokens"] * pricing["output"]))

calculate_cost(call) ==
  IF call["model"] \notin DOMAIN MODEL_PRICING THEN {0}
  ELSE LET pricing == MODEL_PRICING[call["model"]]
       IN  round6(call["input_tokens"] * pricing["input"]
                  + call["output_tokens"] * pricing["output"])

\* sum(c[field] for c in self.calls)
RECURSIVE SumField(_, _)
SumField(cs, field) == IF cs = <<>> THEN 0 ELSE Head(cs)[field] + SumField(Tail(cs), field)

\* the per-call costs one evaluation of summary can compute: calculate_cost is a function
\* of the call, so calls with the same model and token counts get the same cost
CostAssignments(cs) ==
  { f \in [1..Len(cs) -> UNION { calculate_cost(cs[i]) : i \in 1..Len(cs) }] :
      /\ \A i \in 1..Len(cs) : f[i] \in calculate_cost(cs[i])
      /\ \A i, j \in 1..Len(cs) :
           (cs[i]["model"] = cs[j]["model"]
            /\ cs[i]["input_tokens"] = cs[j]["input_tokens"]
            /\ cs[i]["output_tokens"] = cs[j]["output_tokens"]) => f[i] = f[j] }

\* datetime.isoformat(): the text of the timestamp
isoformat(t) == <<"T", t>>

\* the possible results of summary()
summary_sums_total(cs, started) ==
  { [started_at |-> isoformat(started),
     total_calls |-> Len(cs),
     total_input_tokens |-> SumField(cs, "total_tokens"),
     total_output_tokens |-> SumField(cs, "output_tokens"),
     total_tokens |-> SumField(cs, "total_tokens"),
     total_cost_usd |-> SumField([i \in 1..Len(cs) |-> [cost_usd |-> f[i]]], "cost_usd"),
     calls |-> [i \in 1..Len(cs) |-> cs[i] @@ [cost_usd |-> f[i]]]] : f \in CostAssignments(cs) }

summary(cs, started) ==
  { [started_at |-> isoformat(started),
     total_calls |-> Len(cs),
     total_input_tokens |-> SumField(cs, "input_tokens"),
     total_output_tokens |-> SumField(cs, "output_tokens"),
     total_tokens |-> SumField(cs, "total_tokens"),
     total_cost_usd |-> SumField([i \in 1..Len(cs) |-> [cost_usd |-> f[i]]], "cost_usd"),
     calls |-> [i \in 1..Len(cs) |-> cs[i] @@ [cost_usd |-> f[i]]]] : f \in CostAssignments(cs) }

(* ------------------------- ledger specification ------------------------- *)

\* UsageTracker(): self.calls = [], self.started_at = datetime.utcnow()
Init ==
  /\ question = <<>>
  /\ db = <<>>
  /\ result = <<>>
  /\ calls = <<>>
  /\ started_at = 1
  /\ op = "init"
  /\ args = NoneVal
  /\ ret = NoneVal
  /\ exc = "none"
  /\ stdout = NoneVal
  /\ n_usage = 0
  /\ n_known = 0
  /\ AppIdle

\* usage_tracker.record(response, model, stage, provider)
Record(response, model, stage, provider) ==
  LET r == record(calls, response, model, stage, provider)
      present == dict_get(response, "usage", NoneVal) # NoneVal
      counted == present /\ r.exc = "none"
  IN  /\ Len(r.calls) <= MaxCalls
      /\ present => n_usage <= MaxCalls
      /\ calls' = r.calls
      /\ exc' = r.exc
      /\ op' = "record"
      /\ args' = [response |-> response, model |-> model, stage |-> stage, provider |-> provider]
      /\ ret' = NoneVal
      /\ stdout' = NoneVal
      /\ n_usage' = IF counted THEN n_usage + 1 ELSE n_usage
      /\ n_known' = IF counted /\ provider \in KnownProviders THEN n_known + 1 ELSE n_known
      /\ UNCHANGED <<question, db, result, started_at>>
      /\ UNCHANGED appVars

\* usage_tracker.calculate_cost(call) for a call of the ledger
CalculateCost(call) ==
  /\ \E c \in calculate_cost(call) : ret' = [cost |-> c]
  /\ op' = "calculate_cost"
  /\ args' = [call |-> call]
  /\ exc' = "none"
  /\ stdout' = NoneVal
  /\ UNCHANGED <<question, db, result, calls, started_at, n_usage, n_known>>
  /\ UNCHANGED appVars

\* usage_tracker.summary()
Summary ==
  /\ ret' \in summary(calls, started_at)
  /\ op' = "summary"
  /\ args' = NoneVal
  /\ exc' = "none"
  /\ stdout' = NoneVal
  /\ UNCHANGED <<question, db, result, calls, started_at, n_usage, n_known>>
  /\ UNCHANGED appVars

\* usage_tracker.print_detailed_report(): prints the fields of summary()
PrintDetailedReport ==
  /\ stdout' \in summary(calls, started_at)
  /\ op' = "print_detailed_report"
  /\ args' = NoneVal
  /\ ret' = NoneVal
  /\ exc' = "none"
  /\ UNCHANGED <<question, db, result, calls, started_at, n_usage, n_known>>
  /\ UNCHANGED appVars

Next ==
  \/ \E response \in Responses, site \in CallSites, provider \in Providers :
       Record(response, site.model, site.stage, provider)
  \/ \E i \in 1..Len(calls) : CalculateCost(calls[i])
  \/ Summary
  \/ PrintDetailedReport

Spec == Init /\ [][Next]_vars

(* ----------------------- calculate_cost on its own ---------------------- *)

CostInit ==
  /\ question = <<>>
  /\ db = <<>>
  /\ result = <<>>
  /\ calls = <<>>
  /\ started_at = 1
  /\ op = "init"
  /\ args \in { [call |-> c] : c \in ProbeCalls }
  /\ ret = NoneVal
  /\ exc = "none"
  /\ stdout = NoneVal
  /\ n_usage = 0
  /\ n_known = 0
  /\ AppIdle

\* cost = calculate_cost(call)
CostApply ==
  /\ op = "init"
  /\ CalculateCost(args.call)

CostNext == CostApply

CostSpec == CostInit /\ [][CostNext]_vars

(* ----------------------- properties of the ledger ----------------------- *)

IsPrefix(s, t) == Len(s) <= Len(t) /\ SubSeq(t, 1, Len(s)) = s

\* the usage payload of the response a record operation was given is present
UsagePresent(a) == "usage" \in DOMAIN a.response /\ a.response["usage"] # NoneVal

\* C5: the call list is append-only: across every operation the call list before is a
\* prefix of the call list after; it grows only in a record operation with usage present
\* and a known provider, by exactly one entry; summary, calculate_cost and
\* print_detailed_report leave the call list unchanged; started_at never changes.
C5_AppendOnly ==
  [][ /\ IsPrefix(calls, calls')
      /\ started_at' = started_at
      /\ calls' # calls =>
           /\ op' = "record"
           /\ UsagePresent(args')
           /\ args'.provider \in {"openai", "claude"}
           /\ Len(calls') = Len(calls) + 1
      /\ op' \in {"summary", "calculate_cost", "print_detailed_report"} => calls' = calls
    ]_vars

\* a report was printed over a ledger of two different entries
C5_Witness ==
  /\ op = "print_detailed_report"
  /\ Len(calls) >= 2
  /\ calls[1] # calls[2]
  /\ stdout # NoneVal

\* C6: record returns without raising and leaves the call list unchanged when the
\* response has no usage payload (absent or None) and when the provider is not one of
\* "openai", "claude", even if usage is present.
C6_SilentNoOp ==
  [][ (op' = "record" /\ (~ UsagePresent(args') \/ args'.provider \notin {"openai", "claude"}))
        => (calls' = calls /\ exc' = "none")
    ]_vars

\* record was given an OpenAI-shaped usage payload and an unknown provider, on a ledger
\* that already has an entry
C6_Witness ==
  /\ op = "record"
  /\ UsagePresent(args)
  /\ "prompt_tokens" \in DOMAIN args.response["usage"]
  /\ args.provider \notin {"openai", "claude"}
  /\ exc = "none"
  /\ Len(calls) = 1

\* C7: the entry record appends holds the stage, model and provider of the call and the
\* canonical token counts: for "openai" the payload's prompt_tokens, completion_tokens and
\* total_tokens verbatim, for "claude" the payload's input_tokens and output_tokens and
\* their sum as total; every stored claude entry has total = input + output.
C7_Normalized ==
  /\ [][ Len(calls') = Len(calls) + 1 =>
           LET e == calls'[Len(calls')]
               u == args'.response["usage"]
           IN  /\ e["stage"] = args'.stage
               /\ e["model"] = args'.model
               /\ e["provider"] = args'.provider
               /\ args'.provider = "openai" =>
                    /\ e["input_tokens"] = u["prompt_tokens"]
                    /\ e["output_tokens"] = u["completion_tokens"]
                    /\ e["total_tokens"] = u["total_tokens"]
               /\ args'.provider = "claude" =>
                    /\ e["input_tokens"] = u["input_tokens"]
                    /\ e["output_tokens"] = u["output_tokens"]
                    /\ e["total_tokens"] = u["input_tokens"] + u["output_tokens"]
       ]_vars
  /\ [](\A i \in 1..Len(calls) :
          calls[i]["provider"] = "claude" =>
            calls[i]["total_tokens"] = calls[i]["input_tokens"] + calls[i]["output_tokens"])

\* the ledger holds a claude entry and an openai entry whose reported total is not the
\* sum of its input and output tokens
C7_Witness ==
  /\ op = "record"
  /\ \E i \in 1..Len(calls) : calls[i]["provider"] = "claude" /\ calls[i]["total_tokens"] > 0
  /\ \E i \in 1..Len(calls) :
       /\ calls[i]["provider"] = "openai"
       /\ calls[i]["total_tokens"] # calls[i]["input_tokens"] + calls[i]["output_tokens"]

\* the sum of a field over the entries of a list, by position
RECURSIVE TotalOf(_, _, _)
TotalOf(cs, field, k) == IF k = 0 THEN 0 ELSE cs[k][field] + TotalOf(cs, field, k - 1)

\* the totals of a summary are the sums over the recorded calls
SummaryTotals(s) ==
  /\ s["total_input_tokens"] = TotalOf(calls, "input_tokens", Len(calls))
  /\ s["total_output_tokens"] = TotalOf(calls, "output_tokens", Len(calls))
  /\ s["total_tokens"] = TotalOf(calls, "total_tokens", Len(calls))
  /\ s["total_calls"] = Len(s["calls"])
  /\ \A i \in 1..Len(calls) :
       /\ i \in DOMAIN s["calls"]
       /\ \A k \in DOMAIN calls[i] : s["calls"][i][k] = calls[i][k]

\* C8 as stated: the summary totals are the sums over the recorded calls, total_calls is
\* the length of summary().calls, and that length is the number of record invocations
\* that returned with a non-null usage payload.
C8_AsStated ==
  op = "summary" => (SummaryTotals(ret) /\ Len(ret["calls"]) = n_usage)

\* C8 (amended): the summary totals are the sums over the recorded calls, total_calls is
\* the length of summary().calls, and that length is the number of record invocations
\* that returned with a usage payload present and a known provider.
C8_SummaryTotals ==
  op = "summary" => (SummaryTotals(ret) /\ Len(ret["calls"]) = n_known)

\* a summary over two entries with different input, output and total tokens, after a
\* record with usage and an unknown provider was skipped
C8_Witness ==
  /\ op = "summary"
  /\ Len(calls) = 2
  /\ n_usage > n_known
  /\ ret["total_input_tokens"] # ret["total_tokens"]
  /\ ret["total_input_tokens"] > calls[1]["input_tokens"]

\* C9: calculate_cost is 0 for a model that is not a key of the pricing table, and else
\* (input_tokens / 1,000,000) * input price + (output_tokens / 1,000,000) * output price
\* rounded to 6 decimals, prices being per million tokens; gpt-4.1-mini with 1000 input
\* and 500 output tokens costs 0.0024.  (Costs are in micro-dollars, prices in cents per
\* million tokens: a result c is the exact amount n / 100 rounded iff |100 c - n| <= 50.)
C9_CostFormula ==
  op = "calculate_cost" =>
    LET call == args.call
        c == ret["cost"]
    IN  /\ call["model"] \notin DOMAIN MODEL_PRICING => c = 0
        /\ call["model"] \in DOMAIN MODEL_PRICING =>
             LET n == call["input_tokens"] * MODEL_PRICING[call["model"]]["input"]
                      + call["output_tokens"] * MODEL_PRICING[call["model"]]["output"]
             IN  100 * c - n <= 50 /\ n - 100 * c <= 50
        /\ (call["model"] = "gpt-4.1-mini" /\ call["input_tokens"] = 1000
            /\ call["output_tokens"] = 500) => c = 2400

\* the cost of the example call was computed
C9_Witness ==
  /\ op = "calculate_cost"
  /\ args.call["model"] = "gpt-4.1-mini"
  /\ args.call["input_tokens"] = 1000
  /\ args.call["output_tokens"] = 500
  /\ ret["cost"] = 2400

\* the usage payload lacks a field the branch of the declared provider reads
ShapeMismatch(a) ==
  /\ UsagePresent(a)
  /\ \/ a.provider = "openai"
        /\ ~ ({"prompt_tokens", "completion_tokens", "total_tokens"} \subseteq DOMAIN a.response["usage"])
     \/ a.provider = "claude"
        /\ ~ ({"input_tokens", "output_tokens"} \subseteq DOMAIN a.response["usage"])

\* C10: record given a usage payload whose field names do not match the declared
\* provider's shape does not raise: it skips the record and leaves the ledger unchanged.
C10_ShapeMismatchSkipped ==
  [][ (op' = "record" /\ ShapeMismatch(args')) => (exc' = "none" /\ calls' = calls) ]_vars

(* ================================ web app =============================== *)

\* AVAILABLE_MODELS
AVAILABLE_MODELS ==
       "gpt-4.1-mini" :> [provider |-> "openai", display |-> "GPT-4.1 Mini"]
  @@ "gpt-4.1" :> [provider |-> "openai", display |-> "GPT-4.1"]
  @@ "gpt-5-mini" :> [provider |-> "openai", display |-> "GPT-5 Mini"]
  @@ "claude-3-haiku-20240307" :> [provider |-> "claude", display |-> "Claude 3 Haiku"]
  @@ "claude-sonnet-4-5-20250929" :> [provider |-> "claude", display |-> "Claude Sonnet 4.5"]

DEFAULT_MODEL == "gpt-4.1-mini"

\* question_history[-10:]
HistoryCap == 10

Max(a, b) == IF a > b THEN a ELSE b

Range(f) == { f[i] : i \in DOMAIN f }

\* str.strip(): drops the leading and trailing whitespace
RECURSIVE lstrip(_)
lstrip(s) == IF s # <<>> /\ Head(s) = " " THEN lstrip(Tail(s)) ELSE s

RECURSIVE rstrip(_)
rstrip(s) == IF s # <<>> /\ s[Len(s)] = " " THEN rstrip(SubSeq(s, 1, Len(s) - 1)) ELSE s

strip(s) == rstrip(lstrip(s))

\* list.remove(x): drops the first occurrence of x
RECURSIVE list_remove(_, _)
list_remove(l, x) ==
  IF l = <<>> THEN <<>>
  ELSE IF Head(l) = x THEN Tail(l)
  ELSE <<Head(l)>> \o list_remove(Tail(l), x)

\* home, "1. Load History": [] when the file is missing or cannot be parsed
load_history(file) == IF file.exists /\ file.valid THEN file.content ELSE <<>>

\* home, "Update history": remove the question if present, append it, keep the last 10
update_history_no_remove(h, q) ==
  LET h2 == Append(h, q)
  IN  SubSeq(h2, Max(1, Len(h2) - HistoryCap + 1), Len(h2))

update_history(h, q) ==
  LET h1 == IF q \in Range(h) THEN list_remove(h, q) ELSE h
      h2 == Append(h1, q)
  IN  SubSeq(h2, Max(1, Len(h2) - HistoryCap + 1), Len(h2))

(* ------------------------- inputs of the web app ------------------------ *)

\* the record collection of the web app
AppDb == CyclicDb(3, NumKinds)

\* a stored history of ten different questions
StoredHistory ==
  << <<"q","0">>, <<"q","1">>, <<"q","2">>, <<"q","3">>, <<"q","4">>,
     <<"q","5">>, <<"q","6">>, <<"q","7">>, <<"q","8">>, <<"q","9">> >>

\* the history file at start: missing, unparsable, or holding 9 or 10 questions
InitialHistoryFiles ==
  { [exists |-> FALSE], [exists |-> TRUE, valid |-> FALSE] }
  \cup { [exists |-> TRUE, valid |-> TRUE, content |-> SubSeq(StoredHistory, 1, n)] :
           n \in {HistoryCap - 1, HistoryCap} }

\* the question field of the form: empty, blank, a new question with blanks around it,
\* a question for which the filter finds nothing, the oldest stored question
PostQuestions ==
  { <<>>, <<" ", " ">>, <<" ","w","h","a","t"," ">>,
    <<"E","x","e","c","u","t","e","d">>, <<"q","0">> }

\* the selected_model field of the form; "gpt-4" is not a key of AVAILABLE_MODELS
FormModels == {"gpt-4.1-mini", "claude-3-haiku-20240307", "gpt-4"}

\* the q parameter of a GET
GetQuestions == { <<"k","e","n","y","a">> }

\* what the provider call can do: return a response with usage, return a response whose
\* usage is None (chat.completions declares usage optional), or raise
ApiOutcomes(provider) ==
  IF provider = "openai"
    THEN { [kind |-> "ok", response |-> [id |-> "resp", usage |-> u]] : u \in OpenAIUsages }
         \cup { [kind |-> "ok", response |-> [id |-> "resp", usage |-> NoneVal]],
                [kind |-> "raise"] }
    ELSE { [kind |-> "ok", response |-> [id |-> "resp", usage |-> u]] : u \in ClaudeUsages }

(* ------------------------------ ask_question ---------------------------- *)

\* the requests between the provider call and usage_tracker.record
AwaitingRecord == { r \in Reqs : pc[r] = "called" }

\* the locals of a request that has returned
Returned(method, q, model_name, response, answer, stats) ==
  [method |-> method, question |-> q, model_name |-> model_name, response |-> response,
   answer |-> answer, stats |-> stats]

\* ask_question(question, model_name) up to the return of the provider call
AskQuestion(r, method, q, model_name) ==
  LET filtered == filter_activities(q, db)
      done(answer) ==
        /\ pc' = [pc EXCEPT ![r] = "done"]
        /\ req' = [req EXCEPT ![r] = Returned(method, q, model_name, NoneVal, answer, NoneVal)]
  IN  IF filtered = <<>> THEN done("Not available in the dataset.")
      ELSE IF model_name \notin DOMAIN AVAILABLE_MODELS THEN done("Error calling AI API")
      ELSE \E o \in ApiOutcomes(AVAILABLE_MODELS[model_name].provider) :
             IF o.kind = "raise" THEN done("Error calling AI API")
             ELSE /\ UsagePresentIn(o.response) =>
                       Len(calls) + Cardinality(AwaitingRecord) < MaxCalls
                  /\ pc' = [pc EXCEPT ![r] = "called"]
                  /\ req' = [req EXCEPT ![r] =
                               [method |-> method, question |-> q, model_name |-> model_name,
                                response |-> o.response]]

\* home for a POST: strips the question, updates and writes the history when the question
\* is not empty, then calls ask_question
HomePost(r, rawq, selected_model) ==
  LET q == strip(rawq)
  IN  /\ pc[r] \in {"idle", "done"}
      /\ IF q = <<>>
           THEN /\ pc' = [pc EXCEPT ![r] = "done"]
                /\ req' = [req EXCEPT ![r] =
                             Returned("POST", q, selected_model, NoneVal, "", NoneVal)]
                /\ UNCHANGED history_file
           ELSE /\ history_file' = [exists |-> TRUE, valid |-> TRUE,
                                    content |-> update_history(load_history(history_file), q)]
                /\ AskQuestion(r, "POST", q, selected_model)
      /\ UNCHANGED <<question, db, result, calls, started_at, op, args, ret, exc, stdout,
                     n_usage, n_known>>

\* home for a GET with a q parameter: calls ask_question with the default model
HomeGet(r, q) ==
  /\ pc[r] \in {"idle", "done"}
  /\ q # <<>>
  /\ AskQuestion(r, "GET", q, DEFAULT_MODEL)
  /\ UNCHANGED <<question, db, result, calls, started_at, op, args, ret, exc, stdout,
                 n_usage, n_known, history_file>>

\* usage_tracker.record(response, model_name, "query", provider)
RecordUsage(r) ==
  LET l == req[r]
      provider == AVAILABLE_MODELS[l.model_name].provider
      rr == record(calls, l.response, l.model_name, "query", provider)
      counted == UsagePresentIn(l.response) /\ rr.exc = "none"
  IN  /\ pc[r] = "called"
      /\ calls' = rr.calls
      /\ n_usage' = IF counted THEN n_usage + 1 ELSE n_usage
      /\ n_known' = IF counted /\ provider \in KnownProviders THEN n_known + 1 ELSE n_known
      /\ IF rr.exc = "none"
           THEN /\ pc' = [pc EXCEPT ![r] = "recorded"]
                /\ UNCHANGED req
           ELSE /\ pc' = [pc EXCEPT ![r] = "done"]
                /\ req' = [req EXCEPT ![r] =
                             Returned(l.method, l.question, l.model_name, l.response,
                                      "Error calling AI API", NoneVal)]
      /\ UNCHANGED <<question, db, result, started_at, op, args, ret, exc, stdout, history_file>>

\* last_call = usage_tracker.calls[-1] and the rest of ask_question: an empty call list
\* raises IndexError, which the except clause turns into an error answer without stats
ReadLastCall(r) ==
  LET l == req[r]
  IN  /\ pc[r] = "recorded"
      /\ pc' = [pc EXCEPT ![r] = "done"]
      /\ IF calls = <<>>
           THEN req' = [req EXCEPT ![r] =
                          Returned(l.method, l.question, l.model_name, l.response,
                                   "Error calling AI API", NoneVal)]
           ELSE LET last_call == calls[Len(calls)]
                IN  \E cost \in calculate_cost(last_call) :
                      req' = [req EXCEPT ![r] =
                                Returned(l.method, l.question, l.model_name, l.response, "answer",
                                         [provider |-> AVAILABLE_MODELS[l.model_name].provider,
                                          model |-> l.model_name,
                                          display_name |-> AVAILABLE_MODELS[l.model_name].display,
                                          input_tokens |-> last_call["input_tokens"],
                                          output_tokens |-> last_call["output_tokens"],
                                          total_tokens |-> last_call["total_tokens"],
                                          cost |-> cost])]
      /\ UNCHANGED <<question, db, result, calls, started_at, op, args, ret, exc, stdout,
                     n_usage, n_known, history_file>>

(* ------------------- the web app, one request at a time ----------------- *)

AppInit ==
  /\ question = <<>>
  /\ db = AppDb
  /\ result = <<>>
  /\ calls = <<>>
  /\ started_at = 1
  /\ op = "init"
  /\ args = NoneVal
  /\ ret = NoneVal
  /\ exc = "none"
  /\ stdout = NoneVal
  /\ n_usage = 0
  /\ n_known = 0
  /\ history_file \in InitialHistoryFiles
  /\ pc = [r \in Reqs |-> "idle"]
  /\ req = [r \in Reqs |-> NoneVal]

AppNext ==
  \/ \E rawq \in PostQuestions, m \in FormModels : HomePost("A", rawq, m)
  \/ \E q \in GetQuestions : HomeGet("A", q)
  \/ RecordUsage("A")
  \/ ReadLastCall("A")

AppSpec == AppInit /\ [][AppNext]_vars

(* --------------------- the web app, concurrent requests ----------------- *)

\* the questions and models of the concurrent requests
ConcQuestions == { <<"k","e","n","y","a">> }

ConcModels == {"gpt-4.1-mini", "claude-3-haiku-20240307"}

ConcInit ==
  /\ AppInit
  /\ history_file = [exists |-> FALSE]

ConcNext ==
  \E r \in Reqs :
    \/ \E rawq \in ConcQuestions, m \in ConcModels : HomePost(r, rawq, m)
    \/ \E q \in GetQuestions : HomeGet(r, q)
    \/ RecordUsage(r)
    \/ ReadLastCall(r)

ConcSpec == ConcInit /\ [][ConcNext]_vars

(* ----------------------- properties of the web app ---------------------- *)

\* the stats a finished request returned are those of the response it obtained itself:
\* the response carries usage, and the token counts, model and cost are those of that usage
StatsOfOwnCall(l) ==
  /\ UsagePresentIn(l.response)
  /\ LET u == l.response["usage"]
         openai == AVAILABLE_MODELS[l.model_name].provider = "openai"
         own_in == IF openai THEN u["prompt_tokens"] ELSE u["input_tokens"]
         own_out == IF openai THEN u["completion_tokens"] ELSE u["output_tokens"]
         own_total == IF openai THEN u["total_tokens"] ELSE u["input_tokens"] + u["output_tokens"]
     IN  /\ l.stats["model"] = l.model_name
         /\ l.stats["input_tokens"] = own_in
         /\ l.stats["output_tokens"] = own_out
         /\ l.stats["total_tokens"] = own_total
         /\ l.stats["cost"] \in calculate_cost([model |-> l.model_name, input_tokens |-> own_in,
                                                output_tokens |-> own_out])

ReturnedStats(r) == pc[r] = "done" /\ req[r].stats # NoneVal

\* C13: in a sequence of ask_question invocations, one after the other, the stats an
\* invocation returns describe the response obtained in that invocation, never an entry
\* recorded by an earlier one, also when the response carries no usage payload.
C13_StatsOfOwnCall ==
  \A r \in Reqs : ReturnedStats(r) => StatsOfOwnCall(req[r])

\* C14: with two requests running concurrently, record's append and the read of calls[-1]
\* act atomically: once no request is in flight the ledger has exactly one entry per call
\* that returned usage, and the stats of every request whose response carried usage are
\* those of its own call.
C14_AtomicRecordRead ==
  /\ (\A r \in Reqs : pc[r] \in {"idle", "done"}) => Len(calls) = n_known
  /\ \A r \in Reqs :
       (ReturnedStats(r) /\ UsagePresentIn(req[r].response)) => StatsOfOwnCall(req[r])

NoDuplicates(h) == \A i, j \in 1..Len(h) : h[i] = h[j] => i = j

IsSuffix(s, t) == Len(s) <= Len(t) /\ SubSeq(t, Len(t) - Len(s) + 1, Len(t)) = s

\* C15: starting from a stored history without duplicates and of at most 10 entries, the
\* persisted history never has a duplicate nor more than 10 entries; a POST with a
\* non-empty stripped question makes that question the last entry and keeps the other
\* questions in their order, dropping only the oldest ones beyond 10; a POST with an empty
\* question, and a GET, leave the persisted history unchanged.
C15_History ==
  /\ [](NoDuplicates(load_history(history_file)) /\ Len(load_history(history_file)) <= 10)
  /\ [][ (pc["A"] \in {"idle", "done"} /\ "method" \in DOMAIN req'["A"]) =>
           LET l == req'["A"]
               h == load_history(history_file)
               hn == load_history(history_file')
               others == SelectSeq(h, LAMBDA x : x # l.question)
           IN  IF l.method = "POST" /\ l.question # <<>>
                 THEN /\ hn # <<>>
                      /\ hn[Len(hn)] = l.question
                      /\ IsSuffix(SubSeq(hn, 1, Len(hn) - 1), others)
                      /\ Len(others) < 10 => SubSeq(hn, 1, Len(hn) - 1) = others
                 ELSE history_file' = history_file
       ]_vars

\* the stored ten questions, then a new question, then the oldest stored one again: the
\* history holds ten entries, the re-asked question last and the new one before it
C15_Witness ==
  /\ pc["A"] = "done"
  /\ history_file.exists
  /\ history_file.valid
  /\ Len(history_file.content) = 10
  /\ history_file.content[10] = <<"q","0">>
  /\ history_file.content[9] = <<"w","h","a","t">>
  /\ history_file.content[1] = <<"q","2">>

====
